---- MODULE Spec2Model ----
(***************************************************************************)
(* Model of app_analise_chamados.py: one run of the dashboard script over  *)
(* a batch of uploaded CSV files: carregar_dados (read, concatenate and    *)
(* clean), the sidebar filters, the filter itself and the two performance  *)
(* summaries.                                                              *)
(*                                                                         *)
(* A cell of a table is a record [k, s, n]: k is its kind ("nan" a missing *)
(* value, "txt" a text, "num" a number, "ts" a parsed timestamp), s its    *)
(* text and n its number.  A text cell that spells a date carries the date *)
(* format in s and the instant it spells in n; pd.to_datetime is what      *)
(* turns it into a "ts" cell.  A row is a function from column names to    *)
(* cells; a table is [cols, rows].                                         *)
(***************************************************************************)
EXTENDS Integers, Sequences, FiniteSets, TLC

\* ------------------------------------------------------------------ bounds
MaxFiles == 3
MaxRows == 2
MaxDay == 2

\* ------------------------------------------------------------------- cells
NaN == [k |-> "nan", s |-> "", n |-> 0]
Txt(s) == [k |-> "txt", s |-> s, n |-> 0]
Num(n) == [k |-> "num", s |-> "", n |-> n]
Ts(n) == [k |-> "ts", s |-> "", n |-> n]
DateTxt(fmt, t) == [k |-> "txt", s |-> fmt, n |-> t]
IsNa(c) == c.k = "nan"

\* Times of day a timestamp can carry: midnight and a later instant.
Horas == {0, 1}
Timestamp(dia, hora) == dia * Cardinality(Horas) + hora
\* Series.dt.date: the calendar day of a timestamp.
DtDate(t) == t \div Cardinality(Horas)
\* The date formats an export writes: ISO (year first) and day first.
DateFormats == {"iso", "dmy"}

\* ----------------------------------------------------------------- columns
ColData == "Data criacao"
ColAnalistaRaw == "Analista Responsavel"
ColCategoriaRaw == "Categoria 1"
ColTempoRaw == "Tempo Resolvido (Horas)"
ColIdRaw == "PK Dataset Chamados"
ColSlaRaw == "Flag Atendeu SLA"
ColAnalista == "Analista"
ColCategoria == "Categoria"
ColTempo == "Tempo Resolvido (h)"
ColId == "ID Chamado"
ColSla == "Status SLA"
AtendeuSla == "ATENDEU O SLA"

\* The header of an export, and the header of an export with no date column.
ExportCols == {ColData, ColAnalistaRaw, ColCategoriaRaw, ColTempoRaw, ColIdRaw, ColSlaRaw}

\* df.rename(columns={...}): the new name of a column.
RenameCol(c) ==
    CASE c = ColTempoRaw -> ColTempo
      [] c = ColAnalistaRaw -> ColAnalista
      [] c = ColCategoriaRaw -> ColCategoria
      [] c = ColIdRaw -> ColId
      [] c = ColSlaRaw -> ColSla
      [] OTHER -> c

\* The text values of the categorical columns, in sorted() order.
NomesOrdenados == <<"Ana", "Bruno", "Rede", "Sistema">>

\* ------------------------------------------------------------ sequence helpers
RECURSIVE Flatten(_)
Flatten(ss) == IF ss = <<>> THEN <<>> ELSE Head(ss) \o Flatten(Tail(ss))

Range(sq) == {sq[i] : i \in 1..Len(sq)}

\* sorted(set) of text values.
Sorted(S) == SelectSeq(NomesOrdenados, LAMBDA x : x \in S)

MinOf(S) == CHOOSE x \in S : \A y \in S : x <= y
MaxOf(S) == CHOOSE x \in S : \A y \in S : x >= y

\* ------------------------------------------------------------- pandas tables
EmptyDf == [cols |-> {}, rows |-> <<>>]

\* pd.read_csv(arquivo, header=2): the table of a readable file.
ReadCsv(arquivo) == [cols |-> arquivo.cols, rows |-> arquivo.rows]

\* A row widened to the columns cols, NaN where it has no value.
Widen(row, cols) == [c \in cols |-> IF c \in DOMAIN row THEN row[c] ELSE NaN]

\* pd.concat(lista_dfs, ignore_index=True): the union of the columns, the rows
\* in list order then table order.
Concat(dfs) ==
    LET cols == UNION {dfs[i].cols : i \in 1..Len(dfs)}
    IN  [cols |-> cols,
         rows |-> Flatten([i \in 1..Len(dfs) |->
                     [j \in 1..Len(dfs[i].rows) |-> Widen(dfs[i].rows[j], cols)]])]

\* df.dropna(axis=1, how='all'): a column is kept when some row has a value in it.
DropEmptyCols(df) ==
    LET keep == {c \in df.cols : \E i \in 1..Len(df.rows) : ~IsNa(df.rows[i][c])}
    IN  [cols |-> keep,
         rows |-> [i \in 1..Len(df.rows) |-> [c \in keep |-> df.rows[i][c]]]]

\* The format pd.to_datetime guesses for a column: that of its first non-null
\* value, "none" when that value spells no date (or the column is all null).
GuessFormat(col) ==
    LET nn == {i \in 1..Len(col) : ~IsNa(col[i])}
    IN  IF nn = {} THEN "none"
        ELSE LET c == col[MinOf(nn)]
             IN  IF c.k = "txt" /\ c.s \in DateFormats THEN c.s ELSE "none"

\* pd.to_datetime(col, errors='coerce'): each value becomes a timestamp or NaT.
\* With infer (pandas >= 2.0) the format guessed from the first non-null value
\* is applied to every value, and a value in another format becomes NaT; with
\* no guess, or without infer (pandas < 2.0), each value is parsed on its own.
ToDatetime(col, infer) ==
    LET fmt == IF infer THEN GuessFormat(col) ELSE "none"
    IN  [i \in 1..Len(col) |->
            IF col[i].k = "ts" THEN col[i]
            ELSE IF col[i].k = "txt" /\ col[i].s \in DateFormats
                    /\ (fmt = "none" \/ col[i].s = fmt)
                 THEN Ts(col[i].n)
                 ELSE NaN]

\* df[c] = values: the column c replaced.
SetCol(df, c, values) ==
    [cols |-> df.cols \cup {c},
     rows |-> [i \in 1..Len(df.rows) |->
                 [d \in df.cols \cup {c} |-> IF d = c THEN values[i] ELSE df.rows[i][d]]]]

\* df.dropna(subset=[c]): the rows with a value in column c.
DropNaRows(df, c) ==
    [cols |-> df.cols, rows |-> SelectSeq(df.rows, LAMBDA r : ~IsNa(r[c]))]

\* df.rename(columns={...}): every column under its new name.
Rename(df) ==
    LET new == {RenameCol(c) : c \in df.cols}
        old(n) == CHOOSE c \in df.cols : RenameCol(c) = n
    IN  [cols |-> new,
         rows |-> [i \in 1..Len(df.rows) |-> [n \in new |-> df.rows[i][old(n)]]]]

\* Lines 34-65 of carregar_dados on the tables read: the cleaned table, or the
\* KeyError of df_completo['Data criacao'] when no such column is left.
Limpar(dfs, infer) ==
    LET df1 == DropEmptyCols(Concat(dfs))
    IN  IF ColData \notin df1.cols
        THEN [erro |-> "KeyError", df |-> EmptyDf, removidas |-> 0]
        ELSE LET col == [i \in 1..Len(df1.rows) |-> df1.rows[i][ColData]]
                 df2 == SetCol(df1, ColData, ToDatetime(col, infer))
                 df3 == DropNaRows(df2, ColData)
             IN  [erro |-> "", df |-> Rename(df3),
                  removidas |-> Len(df2.rows) - Len(df3.rows)]

\* ------------------------------------------------------------------- state
VARIABLES
    arquivos_carregados,    \* st.file_uploader: the uploaded batch
    infer_data,             \* the pandas build: TRUE when to_datetime infers one format
    pc,                     \* where the script run is
    idx,                    \* carregar_dados: the file the loop is at
    lista_dfs,              \* carregar_dados: the tables read so far
    avisos,                 \* the st.info / st.warning / st.error messages shown
    erro,                   \* the uncaught exception that ended the run, if any
    df_dados,               \* the table carregar_dados returned
    analistas, categorias,  \* the options of the two multiselects
    data_min, data_max,     \* the bounds of the date input
    analista_selecionado, categoria_selecionada, periodo_selecionado,
    df_filtrado,
    desempenho_final, analise_final

vars == <<arquivos_carregados, infer_data, pc, idx, lista_dfs, avisos, erro, df_dados,
          analistas, categorias, data_min, data_max, analista_selecionado,
          categoria_selecionada, periodo_selecionado, df_filtrado,
          desempenho_final, analise_final>>

carga == <<idx, lista_dfs, df_dados>>
barra == <<analistas, categorias, data_min, data_max, analista_selecionado,
           categoria_selecionada, periodo_selecionado>>
saida == <<df_filtrado, desempenho_final, analise_final>>

Aviso(nivel, msg, arquivo, n) == [nivel |-> nivel, msg |-> msg, arquivo |-> arquivo, n |-> n]
SemErro == [tipo |-> "", chave |-> "", linha |-> 0]
KeyError(chave, linha) == [tipo |-> "KeyError", chave |-> chave, linha |-> linha]

\* df.empty: no rows or no columns.
Empty(df) == df.rows = <<>> \/ df.cols = {}

\* ------------------------------------------------------------------ inputs
\* An export row: its six cells.
Row(data, analista, categoria, tempo, id, sla) ==
    (ColData :> data) @@ (ColAnalistaRaw :> analista) @@ (ColCategoriaRaw :> categoria)
    @@ (ColTempoRaw :> tempo) @@ (ColIdRaw :> id) @@ (ColSlaRaw :> sla)

\* The instants a ticket can be created at.
Instantes == {Timestamp(d, h) : d \in 1..MaxDay, h \in Horas}

\* A well-formed ticket, and the rows that differ from it in one field: how the
\* date reads, and whether the analyst and the resolution time are given.
RowsCarga ==
    {Row(d, Txt("Ana"), Txt("Rede"), Num(3), Txt("id"), Txt(AtendeuSla)) :
        d \in {NaN, Txt("abc"), DateTxt("iso", Timestamp(1, 1)), DateTxt("dmy", Timestamp(MaxDay, 0))}}
    \cup {Row(DateTxt("iso", Timestamp(1, 1)), NaN, Txt("Rede"), Num(3), Txt("id"), Txt(AtendeuSla)),
          Row(DateTxt("iso", Timestamp(1, 1)), Txt("Ana"), Txt("Rede"), NaN, Txt("id"), Txt(AtendeuSla))}

\* Two well-formed tickets, to tell the files of a batch apart.
RowsLeitura ==
    {Row(DateTxt("iso", Timestamp(1, 1)), Txt(a), Txt("Rede"), Num(3), Txt("id"), Txt(AtendeuSla)) :
        a \in {"Ana", "Bruno"}}

\* Rows valid in every field that differ in instant, analyst and category.
RowsFiltro ==
    {Row(DateTxt("iso", t), Txt(ac[1]), Txt(ac[2]), Num(3), Txt("id"), Txt(AtendeuSla)) :
        t \in Instantes, ac \in {<<"Ana", "Rede">>, <<"Bruno", "Rede">>, <<"Ana", "Sistema">>}}

\* Rows that differ in analyst, category and SLA status, and in the fields the
\* summaries read.
RowsSla ==
    {Row(DateTxt("iso", Timestamp(1, 1)), Txt(ac[1]), Txt(ac[2]), Num(3), Txt("id"), s) :
        ac \in {<<"Ana", "Rede">>, <<"Bruno", "Rede">>, <<"Ana", "Sistema">>},
        s \in {NaN, Txt(AtendeuSla), Txt("NAO ATENDEU O SLA")}}
    \cup {Row(DateTxt("iso", Timestamp(1, 1)), Txt("Ana"), Txt("Rede"), t, i, Txt(AtendeuSla)) :
            t \in {NaN, Num(3)}, i \in {NaN, Txt("id")}}

\* What an uploaded file is: unreadable, an export, or an export with no date column.
TiposCarga == {"ilegivel", "export", "sem_data"}

\* The file at position i of the batch, named by its position.
Arquivo(i, tipo, rows) ==
    LET cols == IF tipo = "sem_data" THEN ExportCols \ {ColData} ELSE ExportCols
    IN  [name |-> i, ok |-> tipo # "ilegivel",
         cols |-> IF tipo = "ilegivel" THEN {} ELSE cols,
         rows |-> [j \in 1..Len(rows) |-> [c \in cols |-> rows[j][c]]]]

\* The batches of up to maxFiles files of the given kinds that hold, together,
\* the rows rs: fim[i] is where file i's rows end in rs.
Lotes(rs, tipos, maxFiles) ==
    UNION {
        {[i \in 1..k |-> Arquivo(i, tipo[i],
                                 SubSeq(rs, (IF i = 1 THEN 0 ELSE fim[i - 1]) + 1, fim[i]))] :
            <<tipo, fim>> \in
                {tf \in [1..k -> tipos] \X [1..k -> 0..Len(rs)] :
                    /\ k = 0 => rs = <<>>
                    /\ k > 0 => tf[2][k] = Len(rs)
                    /\ \A i \in 1..k :
                         LET ini == IF i = 1 THEN 0 ELSE tf[2][i - 1]
                         IN  /\ ini <= tf[2][i]
                             /\ tf[1][i] = "ilegivel" => tf[2][i] = ini}} :
        k \in 0..maxFiles}

RowSeqs(pool) == UNION {[1..n -> pool] : n \in 0..MaxRows}

InitCom(lotes) ==
    /\ arquivos_carregados \in lotes
    /\ infer_data \in BOOLEAN
    /\ pc = "inicio"
    /\ idx = 0
    /\ lista_dfs = <<>>
    /\ avisos = <<>>
    /\ erro = SemErro
    /\ df_dados = EmptyDf
    /\ analistas = <<>>
    /\ categorias = <<>>
    /\ data_min = 0
    /\ data_max = 0
    /\ analista_selecionado = <<>>
    /\ categoria_selecionada = <<>>
    /\ periodo_selecionado = <<>>
    /\ df_filtrado = EmptyDf
    /\ desempenho_final = <<>>
    /\ analise_final = <<>>

\* ----------------------------------------------------------------- actions
\* Lines 69-79: no file uploaded stops the run.
Upload ==
    /\ pc = "inicio"
    /\ IF arquivos_carregados = <<>>
       THEN /\ avisos' = Append(avisos, Aviso("info", "carregue arquivos", 0, 0))
            /\ pc' = "parado_sem_arquivos"
            /\ idx' = idx
       ELSE /\ avisos' = avisos
            /\ pc' = "lendo"
            /\ idx' = 1
    /\ UNCHANGED <<arquivos_carregados, infer_data, lista_dfs, df_dados, erro, barra, saida>>

\* LerArquivo with the try around the whole loop: the first file that fails
\* to read ends the loop, and the files after it are never read.
LerArquivoAborta ==
    /\ pc = "lendo"
    /\ idx <= Len(arquivos_carregados)
    /\ LET arquivo == arquivos_carregados[idx]
       IN  IF arquivo.ok
           THEN /\ lista_dfs' = Append(lista_dfs, ReadCsv(arquivo))
                /\ avisos' = avisos
                /\ idx' = idx + 1
           ELSE /\ lista_dfs' = lista_dfs
                /\ avisos' = Append(avisos, Aviso("warning", "arquivo nao processado", arquivo.name, 0))
                /\ idx' = Len(arquivos_carregados) + 1
    /\ UNCHANGED <<arquivos_carregados, infer_data, pc, df_dados, erro, barra, saida>>

\* Lines 22-28: one turn of the loop of carregar_dados.
LerArquivo ==
    /\ pc = "lendo"
    /\ idx <= Len(arquivos_carregados)
    /\ LET arquivo == arquivos_carregados[idx]
       IN  IF arquivo.ok
           THEN /\ lista_dfs' = Append(lista_dfs, ReadCsv(arquivo))
                /\ avisos' = avisos
           ELSE /\ lista_dfs' = lista_dfs
                /\ avisos' = Append(avisos, Aviso("warning", "arquivo nao processado", arquivo.name, 0))
    /\ idx' = idx + 1
    /\ UNCHANGED <<arquivos_carregados, infer_data, pc, df_dados, erro, barra, saida>>

\* Lines 30-65 and 82: the rest of carregar_dados, and its result bound to df_dados.
Limpeza ==
    /\ pc = "lendo"
    /\ idx > Len(arquivos_carregados)
    /\ IF lista_dfs = <<>>
       THEN /\ df_dados' = EmptyDf
            /\ avisos' = avisos
            /\ erro' = erro
            /\ pc' = "carregado"
       ELSE LET r == Limpar(lista_dfs, infer_data)
            IN  IF r.erro # ""
                THEN /\ erro' = KeyError(ColData, 42)
                     /\ pc' = "falha"
                     /\ df_dados' = df_dados
                     /\ avisos' = avisos
                ELSE /\ df_dados' = r.df
                     /\ avisos' = IF r.removidas > 0
                                  THEN Append(avisos, Aviso("warning", "linhas removidas", 0, r.removidas))
                                  ELSE avisos
                     /\ erro' = erro
                     /\ pc' = "carregado"
    /\ UNCHANGED <<arquivos_carregados, infer_data, idx, lista_dfs, barra, saida>>

\* Lines 84-86: an empty table stops the run.
VerificarVazio ==
    /\ pc = "carregado"
    /\ IF Empty(df_dados)
       THEN /\ avisos' = Append(avisos, Aviso("error", "nenhum dado valido", 0, 0))
            /\ pc' = "parado_vazio"
       ELSE /\ avisos' = avisos
            /\ pc' = "filtros"
    /\ UNCHANGED <<arquivos_carregados, infer_data, carga, erro, barra, saida>>

\* ---------------------------------------------------------------- sidebar
\* sorted(df[c].dropna().unique()): the text values of column c, sorted.
Opcoes(df, c) == Sorted({df.rows[i][c].s : i \in {j \in 1..Len(df.rows) : ~IsNa(df.rows[j][c])}})

\* A multiselect's value: any of its options, in option order.
Selecoes(opcoes) == {SelectSeq(opcoes, LAMBDA x : x \in S) : S \in SUBSET Range(opcoes)}

\* st.date_input's value: up to two days between min_value and max_value.
Periodos(lo, hi) == UNION {[1..n -> lo..hi] : n \in 0..2}

\* Lines 88-116: the options and the selections of the three filters.
Filtros ==
    /\ pc = "filtros"
    /\ IF ColAnalista \notin df_dados.cols
       THEN /\ erro' = KeyError(ColAnalista, 92)
            /\ pc' = "falha"
            /\ UNCHANGED barra
       ELSE IF ColCategoria \notin df_dados.cols
       THEN /\ erro' = KeyError(ColCategoria, 100)
            /\ pc' = "falha"
            /\ UNCHANGED barra
       ELSE /\ erro' = erro
            /\ pc' = "aplicar"
            /\ analistas' = Opcoes(df_dados, ColAnalista)
            /\ categorias' = Opcoes(df_dados, ColCategoria)
            /\ data_min' = DtDate(MinOf({df_dados.rows[i][ColData].n : i \in 1..Len(df_dados.rows)}))
            /\ data_max' = DtDate(MaxOf({df_dados.rows[i][ColData].n : i \in 1..Len(df_dados.rows)}))
            /\ analista_selecionado' \in Selecoes(analistas')
            /\ categoria_selecionada' \in Selecoes(categorias')
            /\ periodo_selecionado' \in Periodos(data_min', data_max')
    /\ UNCHANGED <<arquivos_carregados, infer_data, carga, avisos, saida>>

\* Series.isin(values): the cell is one of the values.
IsIn(c, values) == c.k = "txt" /\ c.s \in Range(values)

\* Filtrar without .dt.date: the timestamps themselves are compared with the
\* two days, so a ticket created after midnight of the end day is left out.
FiltrarSemDtDate(df, sel_analistas, sel_categorias, periodo) ==
    [cols |-> df.cols,
     rows |-> SelectSeq(df.rows, LAMBDA r :
                 /\ IsIn(r[ColAnalista], sel_analistas)
                 /\ IsIn(r[ColCategoria], sel_categorias)
                 /\ r[ColData].n >= Timestamp(periodo[1], 0)
                 /\ r[ColData].n <= Timestamp(periodo[2], 0))]

\* Lines 124-129: the rows the three filters keep.
Filtrar(df, sel_analistas, sel_categorias, periodo) ==
    [cols |-> df.cols,
     rows |-> SelectSeq(df.rows, LAMBDA r :
                 /\ IsIn(r[ColAnalista], sel_analistas)
                 /\ IsIn(r[ColCategoria], sel_categorias)
                 /\ DtDate(r[ColData].n) >= periodo[1]
                 /\ DtDate(r[ColData].n) <= periodo[2])]

\* Lines 118-133: the filter, and the two stops around it.
AplicarFiltros ==
    /\ pc = "aplicar"
    /\ IF Len(periodo_selecionado) # 2
       THEN /\ avisos' = Append(avisos, Aviso("warning", "periodo invalido", 0, 0))
            /\ pc' = "parado_periodo"
            /\ df_filtrado' = df_filtrado
       ELSE LET f == Filtrar(df_dados, analista_selecionado, categoria_selecionada,
                             periodo_selecionado)
            IN  /\ df_filtrado' = f
                /\ IF Empty(f)
                   THEN /\ avisos' = Append(avisos, Aviso("warning", "nenhum dado para os filtros", 0, 0))
                        /\ pc' = "parado_filtro_vazio"
                   ELSE /\ avisos' = avisos
                        /\ pc' = "abas"
    /\ UNCHANGED <<arquivos_carregados, infer_data, carga, erro, barra,
                   desempenho_final, analise_final>>

\* ------------------------------------------------------------- aggregation
RECURSIVE SumN(_)
SumN(sq) == IF sq = <<>> THEN 0 ELSE Head(sq).n + SumN(Tail(sq))

\* The rows of df whose column chave holds the text g.
Grupo(df, chave, g) == SelectSeq(df.rows, LAMBDA r : r[chave].k = "txt" /\ r[chave].s = g)

\* groupby([chave, 'Status SLA']).size().unstack(fill_value=0): its index (the
\* groups with a row that has a status) and its columns (the statuses seen).
SlaIndex(df, chave) ==
    {r[chave].s : r \in {x \in Range(df.rows) : ~IsNa(x[chave]) /\ ~IsNa(x[ColSla])}}
SlaColumns(df, chave) ==
    {r[ColSla].s : r \in {x \in Range(df.rows) : ~IsNa(x[chave]) /\ ~IsNa(x[ColSla])}}

\* Lines 184-188 (210-214): taxa_sla_% of group g as the fraction num/den: the
\* tickets that met the SLA over the row's sum, times 100; 0 when no ticket of
\* the table met it.
TaxaSla(df, chave, g) ==
    LET comStatus == SelectSeq(Grupo(df, chave, g), LAMBDA r : ~IsNa(r[ColSla]))
        atendeu == SelectSeq(comStatus, LAMBDA r : r[ColSla].s = AtendeuSla)
    IN  IF AtendeuSla \in SlaColumns(df, chave)
        THEN [num |-> Len(atendeu) * 100, den |-> Len(comStatus)]
        ELSE [num |-> 0, den |-> 1]

\* Lines 179-191 (205-217): the summary by chave, one row per group that both
\* the groupby and the SLA table hold (pd.merge is an inner join), in group order.
\* The mean resolution time is kept as the sum and the count of its values.
Resumo(df, chave) ==
    LET grupos == Sorted({r[chave].s : r \in {x \in Range(df.rows) : ~IsNa(x[chave])}})
        linha(g) ==
            LET rs == Grupo(df, chave, g)
                tempos == SelectSeq(rs, LAMBDA r : ~IsNa(r[ColTempo]))
            IN  [grupo |-> g,
                 total_chamados |-> Len(SelectSeq(rs, LAMBDA r : ~IsNa(r[ColId]))),
                 tempo_soma |-> SumN([i \in 1..Len(tempos) |-> tempos[i][ColTempo]]),
                 tempo_n |-> Len(tempos),
                 taxa_sla |-> TaxaSla(df, chave, g)]
        comSla == SelectSeq(grupos, LAMBDA g : g \in SlaIndex(df, chave))
    IN  [i \in 1..Len(comSla) |-> linha(comSla[i])]

\* Lines 143-225: the four tabs.  Tabs 1 and 2 (mean time by category, and by
\* analyst and category) read the resolution time column; tabs 3 and 4 build the
\* two summaries.
Abas ==
    /\ pc = "abas"
    /\ IF ColTempo \notin df_filtrado.cols
       THEN /\ erro' = KeyError(ColTempo, 147)
            /\ pc' = "falha"
            /\ UNCHANGED <<desempenho_final, analise_final>>
       ELSE IF ColId \notin df_filtrado.cols
       THEN /\ erro' = KeyError(ColId, 179)
            /\ pc' = "falha"
            /\ UNCHANGED <<desempenho_final, analise_final>>
       ELSE IF ColSla \notin df_filtrado.cols
       THEN /\ erro' = KeyError(ColSla, 184)
            /\ pc' = "falha"
            /\ UNCHANGED <<desempenho_final, analise_final>>
       ELSE /\ erro' = erro
            /\ pc' = "renderizado"
            /\ desempenho_final' = Resumo(df_filtrado, ColAnalista)
            /\ analise_final' = Resumo(df_filtrado, ColCategoria)
    /\ UNCHANGED <<arquivos_carregados, infer_data, carga, avisos, barra, df_filtrado>>

Next == Upload \/ LerArquivo \/ Limpeza \/ VerificarVazio \/ Filtros \/ AplicarFiltros \/ Abas

\* ---------------------------------------------------------- specifications
\* Batches of up to MaxFiles files of any kind: how the files read and how
\* their dates parse.
Init == InitCom(UNION {Lotes(rs, TiposCarga, MaxFiles) : rs \in RowSeqs(RowsCarga)})
Spec == Init /\ [][Next]_vars

\* Batches of up to MaxFiles files of any kind, of well-formed tickets: which
\* files read and which do not.
InitLeitura == InitCom(UNION {Lotes(rs, TiposCarga, MaxFiles) : rs \in RowSeqs(RowsLeitura)})
SpecLeitura == InitLeitura /\ [][Next]_vars

\* One export: tickets that differ in instant, analyst and category, under every
\* selection of the filters.
InitFiltro == InitCom(UNION {Lotes(rs, {"export"}, 1) : rs \in RowSeqs(RowsFiltro)})
SpecFiltro == InitFiltro /\ [][Next]_vars

\* One export: tickets that differ in analyst, category and SLA status.
InitSla == InitCom(UNION {Lotes(rs, {"export"}, 1) : rs \in RowSeqs(RowsSla)})
SpecSla == InitSla /\ [][Next]_vars

\* ------------------------------------------------------------------ claims
\* The cells of column c of a table that has it; missing when it has not.
Cell(df, r, c) == IF c \in df.cols THEN r[c] ELSE NaN

\* C1: every row of the table carregar_dados returns has an analyst, a
\* category, a valid creation timestamp and a numeric resolution time >= 0.
C1_LinhasValidas ==
    pc = "carregado" =>
        \A i \in 1..Len(df_dados.rows) :
            LET r == df_dados.rows[i]
            IN  /\ ~IsNa(Cell(df_dados, r, ColAnalista))
                /\ ~IsNa(Cell(df_dados, r, ColCategoria))
                /\ Cell(df_dados, r, ColData).k = "ts"
                /\ Cell(df_dados, r, ColTempo).k = "num"
                /\ Cell(df_dados, r, ColTempo).n >= 0

\* C2: a file that fails to read is a local failure.  At every turn of the
\* loop of carregar_dados, the tables read are exactly those of the readable
\* files among the files passed, in order, and the messages are exactly one
\* warning per unreadable file among them, carrying its name, in order: the
\* files before and after an unreadable one are read all the same.
C2_FalhaDeLeituraLocal ==
    pc = "lendo" =>
        LET lidos == SubSeq(arquivos_carregados, 1, idx - 1)
            bons == SelectSeq(lidos, LAMBDA f : f.ok)
            ruins == SelectSeq(lidos, LAMBDA f : ~f.ok)
        IN  /\ idx <= Len(arquivos_carregados) + 1
            /\ lista_dfs = [i \in 1..Len(bons) |-> [cols |-> bons[i].cols, rows |-> bons[i].rows]]
            /\ avisos = [i \in 1..Len(ruins) |->
                            [nivel |-> "warning", msg |-> "arquivo nao processado",
                             arquivo |-> ruins[i].name, n |-> 0]]

\* C2's case: the loop is over a batch whose second file did not read, between
\* two files with rows that did.
C2_Witness ==
    /\ pc = "lendo"
    /\ Len(arquivos_carregados) = 3
    /\ idx = 4
    /\ arquivos_carregados[1].ok /\ arquivos_carregados[1].rows # <<>>
    /\ ~arquivos_carregados[2].ok
    /\ arquivos_carregados[3].ok /\ arquivos_carregados[3].rows # <<>>
    /\ Len(lista_dfs) = 2
    /\ Len(avisos) = 1 /\ avisos[1].arquivo = 2

\* C3: a file that reads but has no date column gets a message naming it, and
\* carregar_dados still returns (the rows of the other files unaffected).
C3_SemDataExcluido ==
    (pc = "carregado" \/ (pc = "falha" /\ erro.linha = 42)) =>
        \A i \in 1..Len(arquivos_carregados) :
            (arquivos_carregados[i].ok /\ ColData \notin arquivos_carregados[i].cols) =>
                /\ pc = "carregado"
                /\ \E k \in 1..Len(avisos) : avisos[k].arquivo = arquivos_carregados[i].name

\* C4: the table carregar_dados returns is the concatenation, in file order, of
\* what cleaning each file on its own yields, whenever each file cleans on its own.
C4_MergeSemPerda ==
    LET porArquivo == [i \in 1..Len(lista_dfs) |-> Limpar(<<lista_dfs[i]>>, infer_data)]
    IN  (/\ pc = "carregado"
         /\ lista_dfs # <<>>
         /\ \A i \in 1..Len(lista_dfs) : porArquivo[i].erro = "")
        => df_dados = Concat([i \in 1..Len(lista_dfs) |-> porArquivo[i].df])

\* A raw row that is valid: a date that reads, an analyst, a category and a
\* numeric resolution time >= 0.
LinhaValida(arquivo, r) ==
    /\ {ColData, ColAnalistaRaw, ColCategoriaRaw, ColTempoRaw} \subseteq arquivo.cols
    /\ r[ColData].k = "txt" /\ r[ColData].s \in DateFormats
    /\ ~IsNa(r[ColAnalistaRaw])
    /\ ~IsNa(r[ColCategoriaRaw])
    /\ r[ColTempoRaw].k = "num" /\ r[ColTempoRaw].n >= 0

SemLinhaValida ==
    \A i \in 1..Len(arquivos_carregados) :
        LET arquivo == arquivos_carregados[i]
        IN  arquivo.ok => \A j \in 1..Len(arquivo.rows) : ~LinhaValida(arquivo, arquivo.rows[j])

\* C5: a batch with no valid row in any file ends in the empty-dataset stop, and
\* in nothing else: neither the filters nor the tabs run.
C5_VazioPara ==
    (/\ arquivos_carregados # <<>>
     /\ SemLinhaValida
     /\ pc \notin {"inicio", "lendo", "carregado"})
    => pc = "parado_vazio"

\* C6: no run ends in an uncaught exception.
C6_SemFalha == pc # "falha"

\* C7: a period that has not exactly two bounds, or whose start is after its
\* end, stops the run with the invalid-period message: the filter gives it no
\* table, empty or full.
C7_PeriodoMalformado ==
    (/\ pc \in {"parado_periodo", "parado_filtro_vazio", "abas", "renderizado"}
     /\ \/ Len(periodo_selecionado) # 2
        \/ periodo_selecionado[1] > periodo_selecionado[2])
    => pc = "parado_periodo"

\* C8: with every analyst and every category selected and the whole observed
\* period, the filter returns the table carregar_dados returned, unchanged.
C8_FiltroIdentidade ==
    (/\ pc \in {"parado_filtro_vazio", "abas"}
     /\ analista_selecionado = analistas
     /\ categoria_selecionada = categorias
     /\ periodo_selecionado = <<data_min, data_max>>)
    => df_filtrado = df_dados

\* The filter has run on a period of two bounds in order.
Filtrou ==
    /\ pc \in {"parado_filtro_vazio", "abas", "renderizado"}
    /\ Len(periodo_selecionado) = 2
    /\ periodo_selecionado[1] <= periodo_selecionado[2]

\* C9: once the filter has run on a well-formed period, the filtered table holds
\* exactly the tickets, in order, whose analyst and category are selected and
\* whose timestamp is from the first instant of the start day to before the
\* first instant of the day after the end day; and filtering leaves the table
\* carregar_dados returned as it was.
C9_FiltroExato ==
    /\ [](Filtrou =>
            /\ df_filtrado.cols = df_dados.cols
            /\ df_filtrado.rows =
                 SelectSeq(df_dados.rows, LAMBDA r :
                    /\ r[ColAnalista].s \in Range(analista_selecionado)
                    /\ r[ColCategoria].s \in Range(categoria_selecionada)
                    /\ Timestamp(periodo_selecionado[1], 0) <= r[ColData].n
                    /\ r[ColData].n < Timestamp(periodo_selecionado[2] + 1, 0)))
    /\ [][pc = "aplicar" => df_dados' = df_dados]_vars

\* C9's case: the filter has kept a ticket created after midnight of the end
\* day and left out a ticket of the day after.
C9_Witness ==
    /\ Filtrou
    /\ \E i \in 1..Len(df_filtrado.rows) :
         /\ DtDate(df_filtrado.rows[i][ColData].n) = periodo_selecionado[2]
         /\ df_filtrado.rows[i][ColData].n > Timestamp(periodo_selecionado[2], 0)
    /\ \E i \in 1..Len(df_dados.rows) :
         DtDate(df_dados.rows[i][ColData].n) = periodo_selecionado[2] + 1

\* One summary is right: each group of the filtered table has exactly one row,
\* whose rate is the group's tickets that met the SLA over all the group's
\* tickets, times 100.
ResumoCerto(resumo, df, chave) ==
    \A g \in {r[chave].s : r \in {x \in Range(df.rows) : ~IsNa(x[chave])}} :
        LET linhas == SelectSeq(resumo, LAMBDA l : l.grupo = g)
            total == Len(Grupo(df, chave, g))
            atendeu == Len(SelectSeq(Grupo(df, chave, g), LAMBDA r : r[ColSla] = Txt(AtendeuSla)))
        IN  /\ Len(linhas) = 1
            /\ linhas[1].taxa_sla.num * total = atendeu * 100 * linhas[1].taxa_sla.den

\* C10: in the summary by analyst and in the summary by category, every group of
\* the filtered table has exactly one row, with the rate met / total x 100.
C10_TaxaSla ==
    pc = "renderizado" =>
        /\ ResumoCerto(desempenho_final, df_filtrado, ColAnalista)
        /\ ResumoCerto(analise_final, df_filtrado, ColCategoria)
====
